---- MODULE Spec2Model ----
(***************************************************************************)
(* Meal ordering system: the order placement handler (createOrder), the    *)
(* catalog handlers (createMenuItem, updateMenuItem, deleteMenuItem), the  *)
(* order status handler (updateOrderStatus), the directory handlers        *)
(* (createUser, updateUser, createDepartment, updateDepartment,            *)
(* deleteDepartment), the order queries getUserOrders and getAllOrders,    *)
(* the two reports, and the cart and the checkout form of the client,      *)
(* over the PostgreSQL tables departments, users, menu_items, orders and   *)
(* order_items.                                                            *)
(*                                                                         *)
(* Every `await db...execute()` of a handler is one statement, atomic in   *)
(* the store; no handler opens a transaction, so the statements of         *)
(* concurrent calls interleave.  Each step of a handler below is one       *)
(* statement together with the synchronous code that follows it up to the  *)
(* next await; a handler of one statement is one step.                     *)
(*                                                                         *)
(* Money is counted in thousandths of the currency unit: a numeric(10,2)   *)
(* column holds multiples of 10, and Numeric2 is the rounding the store    *)
(* applies on write.  Time is counted in quarters of an hour.             *)
(***************************************************************************)
EXTENDS Integers, Sequences, FiniteSets, TLC

\* ---- bounds of the model ----
NumProcs == 2
MaxUserId == 2
MaxItemId == 2
MaxStock == 2
MaxQty == 2
MaxLines == 2
MaxOrders == 2
MaxOps == 2
MaxTime == 1
MaxDeptId == 3
MaxCartQty == 8
NumReqs == 2

Procs == 1..NumProcs
Reqs == 1..NumReqs
UserIds == 1..MaxUserId
ItemIds == 1..MaxItemId
Stocks == 0..MaxStock
Quantities == 1..MaxQty

\* the clock counts quarters of an hour
Times == 0..MaxTime

\* getMinDateTime: the earliest pickup time the checkout form proposes is
\* 30 minutes, two quarters of an hour, after now
MinLead == 2

\* pickup times a client may send, up to MinLead after the last instant of
\* the clock
PickupTimes == 1..(MaxTime + MinLead)

\* the offset of the client's local time from UTC, in quarters of an hour:
\* UTC, and one hour east of it
Zones == {0, 4}
FarPickup == MaxTime + MinLead

\* orders.remarks is nullable text
NoRemarks == "null"
NoDescription == "null"
Descriptions == {NoDescription, "spicy"}
ContactNumbers == {"111", "222"}
Remarks == {NoRemarks, "no onions"}

\* users.department is free text
Departments == {"IT", "HR"}

\* prices a client may send (thousandths); 1255 is 1.255 and is stored as 1.26
PriceInputs == {500, 1255}

OrderStatus == {"pending", "confirmed", "delivered", "cancelled"}

\* ordersTable.status default
DefaultStatusWrong == "confirmed"
DefaultStatus == "pending"

VARIABLES
    users,        \* usersTable: id -> [contact_number, department]
    departments,  \* departmentsTable: id -> [name]
    menu_items,   \* menuItemsTable: id -> [price, description, stock_quantity,
                  \*   created_at, updated_at]
    orders,       \* ordersTable: id -> [user_id, order_date, status,
                  \*   pickup_or_delivery_time, remarks, total_amount, created_at, updated_at]
    order_items,  \* orderItemsTable: id -> [order_id, menu_item_id, quantity, price_at_order]
    menu_seq,     \* serial of menu_items.id
    order_seq,    \* serial of orders.id
    item_seq,     \* serial of order_items.id
    user_seq,     \* serial of users.id
    dept_seq,     \* serial of departments.id
    ops,          \* catalog, directory, status and report requests served so far
    req,          \* per request slot: the call that has run its first statement
    now,          \* the clock of the store and of the handlers
    reply,        \* the response to the last catalog, directory or status request
    pc,           \* per createOrder call: the statement it is about to run
    input,        \* per call: the CreateOrderInput
    menuItemMap,  \* per call: the rows read by the batch lookup
    newOrder,     \* per call: id of the order row it inserted (0: none)
    idx,          \* per call: the line the second loop works on
    outcome,      \* per call: how the call ended
    built,        \* per call: the clock when it built the stock update it is about to run
    cartItems,    \* UserDashboard: the cart of the session
    menuItems,    \* UserDashboard: the menu items it loaded last
    isLoading,    \* ShoppingCart: a checkout is in progress
    error,        \* ShoppingCart: the message shown by the checkout form
    awaited,      \* ShoppingCart: the createOrder call handleCheckout awaits (0: none)
    fetching      \* UserDashboard: the getMenuItems call loadMenuItems awaits

vars == <<users, departments, menu_items, orders, order_items, menu_seq, order_seq, item_seq,
          user_seq, dept_seq, ops, req, now, reply, pc, input, menuItemMap, newOrder, idx,
          outcome, built, cartItems, menuItems, isLoading, error, awaited, fetching>>

db == <<users, departments, menu_items, orders, order_items, menu_seq, order_seq, item_seq,
        user_seq, dept_seq>>
locals == <<pc, input, menuItemMap, newOrder, idx, outcome, built>>
directory == <<departments, user_seq, dept_seq>>
client == <<cartItems, menuItems, isLoading, error, awaited, fetching>>

\* ---- helpers ----
RECURSIVE SumSeq(_)
SumSeq(s) == IF s = <<>> THEN 0 ELSE Head(s) + SumSeq(Tail(s))

RECURSIVE SumSet(_)
\* sum(...) of an aggregate query: f gives the summed value of each row
SumSet(f) ==
    IF DOMAIN f = {} THEN 0
    ELSE LET x == CHOOSE y \in DOMAIN f : TRUE
         IN  f[x] + SumSet([y \in DOMAIN f \ {x} |-> f[y]])

\* numeric(10,2): round half away from zero to a multiple of 10 thousandths
Numeric2(x) == ((x + 5) \div 10) * 10

NoInput == [user_id |-> 0, pickup_or_delivery_time |-> 0, remarks |-> NoRemarks,
            order_items |-> <<>>]

LineSet == [menu_item_id : ItemIds, quantity : Quantities]
LineSeqs == UNION {[1..n -> LineSet] : n \in 1..MaxLines}
\* CreateOrderInput as the concurrent and the sequential runs send it: one
\* pickup time, far ahead, and no remarks (createOrder only copies the two
\* into the order row)
OrderInputs ==
    [user_id : UserIds, pickup_or_delivery_time : {FarPickup}, remarks : {NoRemarks},
     order_items : LineSeqs]

\* the carts of the client: addToCart keeps one line per menu item
Carts ==
    {lines \in LineSeqs :
        \A i, j \in DOMAIN lines : i # j => lines[i].menu_item_id # lines[j].menu_item_id}

\* ---- createOrder: the pure parts ----

\* the batch lookup `select ... where id in (menuItemIds)` and the Map built from it
LookupMenuItems(menu, lines) ==
    LET ids == {lines[i].menu_item_id : i \in DOMAIN lines} \cap DOMAIN menu
    IN  [id \in ids |-> menu[id]]

\* `menuItem.stock_quantity < orderItem.quantity` negated: the line can be served
HasStockAnyLeft(menuItem, orderItem) == ~(menuItem.stock_quantity <= 0)
HasStock(menuItem, orderItem) == ~(menuItem.stock_quantity < orderItem.quantity)

\* checks without the comparison of the two lengths: a missing menu item is
\* reported for its line
ValidatePerLine(lines, map) ==
    IF \E i \in DOMAIN lines : lines[i].menu_item_id \notin DOMAIN map
    THEN "ItemNotFound"
    ELSE IF \E i \in DOMAIN lines : ~HasStock(map[lines[i].menu_item_id], lines[i])
         THEN "InsufficientStock"
    ELSE "ok"

\* the checks between the batch lookup and the insert of the order row
Validate(lines, map) ==
    IF Cardinality(DOMAIN map) # Len(lines) THEN "ItemsNotFound"
    ELSE IF \E i \in DOMAIN lines : lines[i].menu_item_id \notin DOMAIN map
         THEN "ItemNotFound"
    ELSE IF \E i \in DOMAIN lines : ~HasStock(map[lines[i].menu_item_id], lines[i])
         THEN "InsufficientStock"
    ELSE "ok"

\* a total that forgets the quantity
TotalAmountUnitPrices(lines, map) ==
    SumSeq([i \in DOMAIN lines |-> map[lines[i].menu_item_id].price])

\* totalAmount += parseFloat(menuItem.price) * orderItem.quantity
TotalAmount(lines, map) ==
    SumSeq([i \in DOMAIN lines |-> map[lines[i].menu_item_id].price * lines[i].quantity])

\* the value written by `set({ stock_quantity: menuItem.stock_quantity - orderItem.quantity })`
StockAfter(menuItem, orderItem) == menuItem.stock_quantity - orderItem.quantity

\* calls that will still insert an order row
NotYetInserted == {q \in Procs : pc[q] \in {"requested", "selectMenuItems", "insertOrder"}}

\* slot p takes a new call: the slots fill in order, and the calls under way
\* leave room under the bound on the orders
CanStart(p) ==
    /\ pc[p] = "idle"
    /\ \A q \in Procs : q < p => pc[q] \notin {"idle", "done"}
    /\ order_seq + Cardinality(NotYetInserted) < MaxOrders

\* the call of slot p starts with input in, or its request, sent by the
\* checkout form, has arrived with it
Arrives(p, in) ==
    \/ CanStart(p)
    \/ pc[p] = "requested" /\ input[p] = in

\* ---- createOrder: one action per statement ----

\* a first statement that does not look the user up
CO_SelectUserUnchecked(p, in) ==
    /\ Arrives(p, in)
    /\ input' = [input EXCEPT ![p] = in]
    /\ pc' = [pc EXCEPT ![p] = "selectMenuItems"]
    /\ UNCHANGED <<db, ops, req, now, reply, menuItemMap, newOrder, idx, outcome, built,
                   client>>

\* select the user; `if (user.length === 0) throw 'User not found'`
CO_SelectUser(p, in) ==
    /\ Arrives(p, in)
    /\ input' = [input EXCEPT ![p] = in]
    /\ IF in.user_id \in DOMAIN users
       THEN /\ pc' = [pc EXCEPT ![p] = "selectMenuItems"]
            /\ outcome' = outcome
       ELSE /\ pc' = [pc EXCEPT ![p] = "done"]
            /\ outcome' = [outcome EXCEPT ![p] = "UserNotFound"]
    /\ UNCHANGED <<db, ops, req, now, reply, menuItemMap, newOrder, idx, built, client>>

\* batch lookup of the menu items, then the existence and stock checks
CO_SelectMenuItems(p) ==
    /\ pc[p] = "selectMenuItems"
    /\ LET map == LookupMenuItems(menu_items, input[p].order_items)
           v == Validate(input[p].order_items, map)
       IN  /\ menuItemMap' = [menuItemMap EXCEPT ![p] = map]
           /\ IF v = "ok"
              THEN /\ pc' = [pc EXCEPT ![p] = "insertOrder"]
                   /\ outcome' = outcome
              ELSE /\ pc' = [pc EXCEPT ![p] = "done"]
                   /\ outcome' = [outcome EXCEPT ![p] = v]
    /\ UNCHANGED <<db, ops, req, now, reply, input, newOrder, idx, built, client>>

\* insert the order row; status takes the column default
CO_InsertOrder(p) ==
    /\ pc[p] = "insertOrder"
    /\ LET id == order_seq + 1
           row == [user_id |-> input[p].user_id,
                   order_date |-> now,
                   status |-> DefaultStatus,
                   pickup_or_delivery_time |-> input[p].pickup_or_delivery_time,
                   remarks |-> input[p].remarks,
                   total_amount |-> Numeric2(TotalAmount(input[p].order_items, menuItemMap[p])),
                   created_at |-> now,
                   updated_at |-> now]
       IN  /\ order_seq' = id
           /\ orders' = [i \in DOMAIN orders \cup {id} |-> IF i = id THEN row ELSE orders[i]]
           /\ newOrder' = [newOrder EXCEPT ![p] = id]
    /\ idx' = [idx EXCEPT ![p] = 1]
    /\ pc' = [pc EXCEPT ![p] = "insertOrderItem"]
    /\ UNCHANGED <<users, menu_items, order_items, menu_seq, item_seq, ops, req, now, reply, input,
                   menuItemMap, outcome, built, directory, client>>

\* a variant that takes the price of the order item from the catalog as it is
\* when the order item is inserted
CO_InsertOrderItemAtCatalogPrice(p) ==
    /\ pc[p] = "insertOrderItem"
    /\ LET line == input[p].order_items[idx[p]]
           id == item_seq + 1
           row == [order_id |-> newOrder[p],
                   menu_item_id |-> line.menu_item_id,
                   quantity |-> line.quantity,
                   price_at_order |->
                       IF line.menu_item_id \in DOMAIN menu_items
                       THEN menu_items[line.menu_item_id].price
                       ELSE menuItemMap[p][line.menu_item_id].price]
       IN  /\ item_seq' = id
           /\ IF line.menu_item_id \in DOMAIN menu_items
              THEN /\ order_items' = [i \in DOMAIN order_items \cup {id} |->
                                         IF i = id THEN row ELSE order_items[i]]
                   /\ pc' = [pc EXCEPT ![p] = "updateStock"]
                   /\ outcome' = outcome
                   /\ built' = [built EXCEPT ![p] = now]
              ELSE /\ order_items' = order_items
                   /\ pc' = [pc EXCEPT ![p] = "done"]
                   /\ outcome' = [outcome EXCEPT ![p] = "StoreError"]
                   /\ built' = built
    /\ UNCHANGED <<users, menu_items, orders, menu_seq, order_seq, ops, req, now, reply, input,
                   menuItemMap, newOrder, idx, directory, client>>

\* insert the order item of line idx; the store rejects it (foreign key
\* menu_item_id) when the menu item is gone, and the call rethrows. When the
\* insert returns, the handler builds the stock update, `updated_at: new
\* Date()` included: built is the clock of this step at the earliest
CO_InsertOrderItem(p) ==
    /\ pc[p] = "insertOrderItem"
    /\ LET line == input[p].order_items[idx[p]]
           id == item_seq + 1
           row == [order_id |-> newOrder[p],
                   menu_item_id |-> line.menu_item_id,
                   quantity |-> line.quantity,
                   price_at_order |-> menuItemMap[p][line.menu_item_id].price]
       IN  /\ item_seq' = id
           /\ IF line.menu_item_id \in DOMAIN menu_items
              THEN /\ order_items' = [i \in DOMAIN order_items \cup {id} |->
                                         IF i = id THEN row ELSE order_items[i]]
                   /\ pc' = [pc EXCEPT ![p] = "updateStock"]
                   /\ outcome' = outcome
                   /\ built' = [built EXCEPT ![p] = now]
              ELSE /\ order_items' = order_items
                   /\ pc' = [pc EXCEPT ![p] = "done"]
                   /\ outcome' = [outcome EXCEPT ![p] = "StoreError"]
                   /\ built' = built
    /\ UNCHANGED <<users, menu_items, orders, menu_seq, order_seq, ops, req, now, reply, input,
                   menuItemMap, newOrder, idx, directory, client>>

\* write the stock of line idx from the value read by the batch lookup, and
\* as updated_at the time at which the handler built the statement: a moment
\* between the return of the insert and the run of this statement
CO_UpdateStock(p) ==
    /\ pc[p] = "updateStock"
    /\ LET line == input[p].order_items[idx[p]]
           id == line.menu_item_id
       IN  \E at \in built[p]..now :
               menu_items' =
                   IF id \in DOMAIN menu_items
                   THEN [menu_items EXCEPT ![id].stock_quantity =
                                               StockAfter(menuItemMap[p][id], line),
                                           ![id].updated_at = at]
                   ELSE menu_items
    /\ built' = [built EXCEPT ![p] = 0]
    /\ IF idx[p] = Len(input[p].order_items)
       THEN pc' = [pc EXCEPT ![p] = "selectUpdated"] /\ idx' = idx
       ELSE pc' = [pc EXCEPT ![p] = "insertOrderItem"]
            /\ idx' = [idx EXCEPT ![p] = idx[p] + 1]
    /\ UNCHANGED <<users, orders, order_items, menu_seq, order_seq, item_seq, ops, req, now, reply,
                   input, menuItemMap, newOrder, outcome, directory, client>>

\* read the menu items again, build the response and return it
CO_Return(p) ==
    /\ pc[p] = "selectUpdated"
    /\ pc' = [pc EXCEPT ![p] = "done"]
    /\ outcome' = [outcome EXCEPT ![p] =
                      IF \A i \in DOMAIN input[p].order_items :
                             input[p].order_items[i].menu_item_id \in DOMAIN menu_items
                      THEN "ok" ELSE "StoreError"]
    /\ UNCHANGED <<db, ops, req, now, reply, input, menuItemMap, newOrder, idx, built, client>>

\* the caller has the result; the next call starts from fresh locals
Finish(p) ==
    /\ pc[p] = "done"
    /\ pc' = [pc EXCEPT ![p] = "idle"]
    /\ input' = [input EXCEPT ![p] = NoInput]
    /\ menuItemMap' = [menuItemMap EXCEPT ![p] = <<>>]
    /\ newOrder' = [newOrder EXCEPT ![p] = 0]
    /\ idx' = [idx EXCEPT ![p] = 0]
    /\ outcome' = [outcome EXCEPT ![p] = "none"]
    /\ UNCHANGED <<db, ops, req, now, reply, built, client>>

\* the statements of a call after the first
CO_Rest(p) ==
    \/ CO_SelectMenuItems(p)
    \/ CO_InsertOrder(p)
    \/ CO_InsertOrderItem(p)
    \/ CO_UpdateStock(p)
    \/ CO_Return(p)

createOrder(p) ==
    \/ \E in \in OrderInputs : pc[p] = "idle" /\ CO_SelectUser(p, in)
    \/ CO_Rest(p)

\* ---- the checkout form of the client ----

\* getMinDateTime at instant t in a zone: the UTC wall-clock reading of
\* t + 30 minutes (toISOString), which the datetime-local field takes as a
\* local time
getMinDateTime(t, zone) == (t + MinLead) - zone

\* the pickup field of the checkout form left empty
EmptyField == -1

\* the messages of the checkout form
NoError == "null"
SelectTime == "Please select a pickup/delivery time."
NotInFuture == "Pickup/delivery time must be in the future."
OrderFailed == "Failed to place order. Please try again."

\* orderData of handleCheckout: the session user, the form and the cart
orderData(pickup, remarks) ==
    [user_id |-> 1, pickup_or_delivery_time |-> pickup, remarks |-> remarks,
     order_items |-> cartItems]

\* the browser submits the checkout form, rendered at instant rendered in a
\* zone: the form is shown for a cart that is not empty, the submit button
\* is disabled while loading, and the pickup field is required and has
\* getMinDateTime() as its min
CanSubmit(pickup, rendered, zone) ==
    /\ cartItems # <<>>
    /\ ~isLoading
    /\ rendered <= now
    /\ pickup # EmptyField
    /\ pickup >= getMinDateTime(rendered, zone)

\* handleCheckout up to its await: an empty pickup field and a pickup time
\* that is not after now are rejected with a message; otherwise the loading
\* flag is raised, the message cleared and orderData, built from the cart,
\* sent to createOrder as the call of slot p
handleCheckout(p, pickup, remarks) ==
    IF pickup = EmptyField
    THEN /\ error' = SelectTime
         /\ UNCHANGED <<db, ops, req, now, reply, locals, cartItems, menuItems, isLoading,
                        awaited, fetching>>
    ELSE IF pickup <= now
    THEN /\ error' = NotInFuture
         /\ UNCHANGED <<db, ops, req, now, reply, locals, cartItems, menuItems, isLoading,
                        awaited, fetching>>
    ELSE /\ CanStart(p)
         /\ isLoading' = TRUE
         /\ error' = NoError
         /\ awaited' = p
         /\ input' = [input EXCEPT ![p] = orderData(pickup, remarks)]
         /\ pc' = [pc EXCEPT ![p] = "requested"]
         /\ UNCHANGED <<db, ops, req, now, reply, menuItemMap, newOrder, idx, outcome, built,
                        cartItems, menuItems, fetching>>

\* a continuation that empties the cart whatever the result
handleCheckoutClearing(p) ==
    /\ pc[p] = "done"
    /\ awaited = p
    /\ cartItems' = <<>>
    /\ error' = IF outcome[p] = "ok" THEN error ELSE OrderFailed
    /\ isLoading' = FALSE
    /\ awaited' = 0
    /\ pc' = [pc EXCEPT ![p] = "idle"]
    /\ input' = [input EXCEPT ![p] = NoInput]
    /\ menuItemMap' = [menuItemMap EXCEPT ![p] = <<>>]
    /\ newOrder' = [newOrder EXCEPT ![p] = 0]
    /\ idx' = [idx EXCEPT ![p] = 0]
    /\ outcome' = [outcome EXCEPT ![p] = "none"]
    /\ UNCHANGED <<db, ops, req, now, reply, built, menuItems, fetching>>

\* handleCheckout after the await of the call of slot p: on success
\* onOrderPlaced empties the cart (clearCart); on a rejection the catch block
\* sets the message; the finally block lowers the loading flag
handleCheckoutSettled(p) ==
    /\ pc[p] = "done"
    /\ awaited = p
    /\ IF outcome[p] = "ok"
       THEN /\ cartItems' = <<>>
            /\ error' = error
       ELSE /\ cartItems' = cartItems
            /\ error' = OrderFailed
    /\ isLoading' = FALSE
    /\ awaited' = 0
    /\ pc' = [pc EXCEPT ![p] = "idle"]
    /\ input' = [input EXCEPT ![p] = NoInput]
    /\ menuItemMap' = [menuItemMap EXCEPT ![p] = <<>>]
    /\ newOrder' = [newOrder EXCEPT ![p] = 0]
    /\ idx' = [idx EXCEPT ![p] = 0]
    /\ outcome' = [outcome EXCEPT ![p] = "none"]
    /\ UNCHANGED <<db, ops, req, now, reply, built, menuItems, fetching>>

\* the catalog the runs with a stocked menu start from: every item in stock
SeedCatalog ==
    [i \in ItemIds |-> [price |-> Numeric2(1255), description |-> "spicy",
                        stock_quantity |-> MaxStock, created_at |-> 0, updated_at |-> 0]]

\* ---- the dashboard and the cart of the client ----

\* the getMenuItems call of the page: none, sent, or answered with the rows
\* the server read
NoFetch == [state |-> "none"]
Sent == [state |-> "sent"]
Answered(items) == [state |-> "answered", items |-> items]

\* the page is loaded again: the dashboard and the checkout form start from
\* their initial state, the cart is read back from localStorage, where the
\* save effect wrote it at its last change, loadMenuItems sends its
\* getMenuItems call, and the calls of the page before are no longer awaited
mount ==
    /\ cartItems' = cartItems
    /\ menuItems' = <<>>
    /\ isLoading' = FALSE
    /\ error' = NoError
    /\ awaited' = 0
    /\ fetching' = Sent
    /\ UNCHANGED <<db, ops, req, now, reply, locals>>

\* the server answers getMenuItems with every row of menu_items
getMenuItems ==
    /\ fetching = Sent
    /\ fetching' = Answered(menu_items)
    /\ UNCHANGED <<db, ops, req, now, reply, locals, cartItems, menuItems, isLoading, error,
                   awaited>>

\* loadMenuItems after its await: the rows of the response replace the menu
\* items of the dashboard
loadMenuItems ==
    /\ fetching.state = "answered"
    /\ menuItems' = fetching.items
    /\ fetching' = NoFetch
    /\ UNCHANGED <<db, ops, req, now, reply, locals, cartItems, isLoading, error, awaited>>

\* the quantity of menu item id in the cart (MenuBrowser.getCartQuantity)
getCartQuantity(id) ==
    LET found == {i \in DOMAIN cartItems : cartItems[i].menu_item_id = id}
    IN  IF found = {} THEN 0
        ELSE cartItems[CHOOSE i \in found : \A j \in found : i <= j].quantity

\* MenuBrowser lists the menu items in stock, and the Add to Cart button of
\* one is enabled while the cart holds less of it than its stock
canAddMore(id) ==
    /\ id \in DOMAIN menuItems
    /\ menuItems[id].stock_quantity > 0
    /\ getCartQuantity(id) < menuItems[id].stock_quantity

\* a variant that appends an entry whether or not the cart has the item
addToCartAppending(menuItemId, quantity) ==
    /\ cartItems' = Append(cartItems, [menu_item_id |-> menuItemId, quantity |-> quantity])
    /\ UNCHANGED <<db, ops, req, now, reply, locals, menuItems, isLoading, error, awaited,
                   fetching>>

\* addToCart: add the quantity to the entry of the menu item, or append an
\* entry for it
addToCart(menuItemId, quantity) ==
    /\ cartItems' =
           IF \E i \in DOMAIN cartItems : cartItems[i].menu_item_id = menuItemId
           THEN [i \in DOMAIN cartItems |->
                    IF cartItems[i].menu_item_id = menuItemId
                    THEN [cartItems[i] EXCEPT !.quantity = @ + quantity]
                    ELSE cartItems[i]]
           ELSE Append(cartItems, [menu_item_id |-> menuItemId, quantity |-> quantity])
    /\ UNCHANGED <<db, ops, req, now, reply, locals, menuItems, isLoading, error, awaited,
                   fetching>>

\* updateCartItem: a quantity of zero or less removes the entry of the menu
\* item, any other quantity replaces the quantity of the entry
updateCartItem(menuItemId, quantity) ==
    /\ cartItems' =
           IF quantity <= 0
           THEN SelectSeq(cartItems, LAMBDA item : item.menu_item_id # menuItemId)
           ELSE [i \in DOMAIN cartItems |->
                    IF cartItems[i].menu_item_id = menuItemId
                    THEN [cartItems[i] EXCEPT !.quantity = quantity]
                    ELSE cartItems[i]]
    /\ UNCHANGED <<db, ops, req, now, reply, locals, menuItems, isLoading, error, awaited,
                   fetching>>

\* removeFromCart: drop the entry of the menu item
removeFromCart(menuItemId) ==
    /\ cartItems' = SelectSeq(cartItems, LAMBDA item : item.menu_item_id # menuItemId)
    /\ UNCHANGED <<db, ops, req, now, reply, locals, menuItems, isLoading, error, awaited,
                   fetching>>

\* clearCart: empty the cart
clearCart ==
    /\ cartItems' = <<>>
    /\ UNCHANGED <<db, ops, req, now, reply, locals, menuItems, isLoading, error, awaited,
                   fetching>>

\* the - and + buttons and the number field of a cart line: below 1 the line
\* is removed, and a quantity above the stock of the menu item is ignored
handleQuantityChange(menuItemId, newQuantity) ==
    IF newQuantity < 1
    THEN removeFromCart(menuItemId)
    ELSE IF menuItemId \in DOMAIN menuItems
            /\ newQuantity <= menuItems[menuItemId].stock_quantity
         THEN updateCartItem(menuItemId, newQuantity)
         ELSE UNCHANGED vars

\* ---- catalog handlers ----

\* no call is in the request slot
NoReq == [op |-> "none"]

\* the slots of the calls that have run their first statement
Busy == {r \in Reqs : req[r] # NoReq}

\* a request is served and counted; the calls under way leave room for it
\* under the bound on the requests
Request ==
    /\ ops + Cardinality(Busy) < MaxOps
    /\ ops' = ops + 1

\* slot r takes a call of several statements: the slots fill in order
Accept(r) ==
    /\ req[r] = NoReq
    /\ \A q \in Reqs : q < r => req[q] # NoReq
    /\ ops + Cardinality(Busy) < MaxOps

\* the response of a handler: the error it throws ("none": it returns), for
\* updateOrderStatus the order it returns, and for getDepartmentReports the
\* report
NoReply == [op |-> "none", error |-> "none", order |-> {}, report |-> <<>>]
Thrown(op, err) == [op |-> op, error |-> err, order |-> {}, report |-> <<>>]
Returned(op) == [op |-> op, error |-> "none", order |-> {}, report |-> <<>>]

\* insert a menu item (input validated by createMenuItemInputSchema)
createMenuItem(price, stock) ==
    /\ Request
    /\ menu_seq < MaxItemId
    /\ menu_seq' = menu_seq + 1
    /\ menu_items' = [i \in DOMAIN menu_items \cup {menu_seq + 1} |->
                         IF i = menu_seq + 1
                         THEN [price |-> Numeric2(price), description |-> NoDescription,
                               stock_quantity |-> stock, created_at |-> now,
                               updated_at |-> now]
                         ELSE menu_items[i]]
    /\ reply' = Returned("createMenuItem")
    /\ UNCHANGED <<users, orders, order_items, order_seq, item_seq, req, now, locals, directory,
                   client>>

\* UpdateMenuItemInput as the runs with orders send it: id, and a price or
\* a stock
UpdateMenuItemInputs ==
    [id : ItemIds, price : PriceInputs] \cup [id : ItemIds, stock_quantity : Stocks]

\* a patch in the manner of the placeholder handler: a field that is not
\* provided takes its default
PatchedWithDefaults(row, in, at) ==
    [price |-> IF "price" \in DOMAIN in THEN Numeric2(in.price) ELSE row.price,
     description |-> IF "description" \in DOMAIN in THEN in.description ELSE NoDescription,
     stock_quantity |-> IF "stock_quantity" \in DOMAIN in
                        THEN in.stock_quantity ELSE row.stock_quantity,
     created_at |-> row.created_at,
     updated_at |-> at]

\* the row of menu item in.id after the patch: updated_at is set to at, and of the
\* other columns only the provided ones (`!== undefined`; null is a value)
Patched(row, in, at) ==
    [price |-> IF "price" \in DOMAIN in THEN Numeric2(in.price) ELSE row.price,
     description |-> IF "description" \in DOMAIN in THEN in.description ELSE row.description,
     stock_quantity |-> IF "stock_quantity" \in DOMAIN in
                        THEN in.stock_quantity ELSE row.stock_quantity,
     created_at |-> row.created_at,
     updated_at |-> at]

\* updateMenuItem, first statement: select the menu item; the handler throws
\* `Menu item with id ... not found` when there is no row. When the select
\* returns, the handler builds updateData, `updated_at: new Date()`
\* included: built is the clock of this step at the earliest
UM_Select(r, in) ==
    /\ Accept(r)
    /\ IF in.id \in DOMAIN menu_items
       THEN /\ req' = [req EXCEPT ![r] = [op |-> "updateMenuItem", in |-> in, built |-> now]]
            /\ ops' = ops
            /\ reply' = reply
       ELSE /\ req' = req
            /\ ops' = ops + 1
            /\ reply' = Thrown("updateMenuItem", "NotFound")
    /\ UNCHANGED <<db, now, locals, client>>

\* a second statement that also rewrites the price of the order items of the
\* menu item
UM_UpdateRepricing(r) ==
    /\ req[r].op = "updateMenuItem"
    /\ LET in == req[r].in
       IN  IF in.id \in DOMAIN menu_items
           THEN /\ \E at \in req[r].built..now :
                    menu_items' = [menu_items EXCEPT ![in.id] = Patched(@, in, at)]
                /\ order_items' = [k \in DOMAIN order_items |->
                                      IF order_items[k].menu_item_id = in.id
                                      THEN [order_items[k] EXCEPT
                                                !.price_at_order = menu_items'[in.id].price]
                                      ELSE order_items[k]]
                /\ reply' = Returned("updateMenuItem")
           ELSE /\ menu_items' = menu_items
                /\ order_items' = order_items
                /\ reply' = Thrown("updateMenuItem", "TypeError")
    /\ req' = [req EXCEPT ![r] = NoReq]
    /\ ops' = ops + 1
    /\ UNCHANGED <<users, orders, menu_seq, order_seq, item_seq, now, locals, directory, client>>

\* updateMenuItem, second statement: `update ... where id = input.id
\* returning *` patches the provided fields, updated_at with the time at
\* which the handler built updateData, a moment between the return of the
\* select and the run of this statement; when the row is gone the update
\* returns no row, and reading the price of result[0] throws a TypeError
UM_Update(r) ==
    /\ req[r].op = "updateMenuItem"
    /\ LET in == req[r].in
       IN  IF in.id \in DOMAIN menu_items
           THEN /\ \E at \in req[r].built..now :
                    menu_items' = [menu_items EXCEPT ![in.id] = Patched(@, in, at)]
                /\ reply' = Returned("updateMenuItem")
           ELSE /\ menu_items' = menu_items
                /\ reply' = Thrown("updateMenuItem", "TypeError")
    /\ req' = [req EXCEPT ![r] = NoReq]
    /\ ops' = ops + 1
    /\ UNCHANGED <<users, orders, order_items, menu_seq, order_seq, item_seq, now, locals,
                   directory, client>>

\* the statements of the updateMenuItem call of slot r
updateMenuItem(r) ==
    \/ \E in \in UpdateMenuItemInputs : UM_Select(r, in)
    \/ UM_Update(r)

\* order items that reference menu item id (foreign key menu_item_id)
Referenced(id) == \E i \in DOMAIN order_items : order_items[i].menu_item_id = id

\* deleteMenuItem, first statement: select the menu item; the handler throws
\* `Menu item not found` when there is no row
DM_Select(r, id) ==
    /\ Accept(r)
    /\ IF id \in DOMAIN menu_items
       THEN /\ req' = [req EXCEPT ![r] = [op |-> "deleteMenuItem", id |-> id]]
            /\ ops' = ops
            /\ reply' = reply
       ELSE /\ req' = req
            /\ ops' = ops + 1
            /\ reply' = Thrown("deleteMenuItem", "NotFound")
    /\ UNCHANGED <<db, now, locals, client>>

\* a second statement that takes the order items of the menu item with it
DM_DeleteCascading(r) ==
    /\ req[r].op = "deleteMenuItem"
    /\ LET id == req[r].id
       IN  /\ menu_items' = [i \in DOMAIN menu_items \ {id} |-> menu_items[i]]
           /\ order_items' = [k \in {x \in DOMAIN order_items :
                                        order_items[x].menu_item_id # id} |-> order_items[k]]
           /\ reply' = Returned("deleteMenuItem")
    /\ req' = [req EXCEPT ![r] = NoReq]
    /\ ops' = ops + 1
    /\ UNCHANGED <<users, orders, menu_seq, order_seq, item_seq, now, locals, directory, client>>

\* deleteMenuItem, second statement: `delete ... where id = id`; the store
\* rejects it while an order item references the row, and the handler
\* returns success whether or not a row was deleted
DM_Delete(r) ==
    /\ req[r].op = "deleteMenuItem"
    /\ LET id == req[r].id
       IN  IF Referenced(id)
           THEN /\ menu_items' = menu_items
                /\ reply' = Thrown("deleteMenuItem", "StoreError")
           ELSE /\ menu_items' = [i \in DOMAIN menu_items \ {id} |-> menu_items[i]]
                /\ reply' = Returned("deleteMenuItem")
    /\ req' = [req EXCEPT ![r] = NoReq]
    /\ ops' = ops + 1
    /\ UNCHANGED <<users, orders, order_items, menu_seq, order_seq, item_seq, now, locals,
                   directory, client>>

\* the statements of the deleteMenuItem call of slot r
deleteMenuItem(r) ==
    \/ \E id \in ItemIds : DM_Select(r, id)
    \/ DM_Delete(r)

\* ---- order status ----

\* a status update that keeps the old updated_at
WithStatusOnly(row, status) == [row EXCEPT !.status = status]

\* the order row after a status update: the new status, updated_at refreshed
WithStatus(row, status) == [row EXCEPT !.status = status, !.updated_at = now]

\* a status update that gives the stock of a cancelled order back
updateOrderStatusRestocking(id, status) ==
    /\ Request
    /\ IF id \in DOMAIN orders
       THEN /\ orders' = [orders EXCEPT ![id] = WithStatus(@, status)]
            /\ reply' = [op |-> "updateOrderStatus", error |-> "none",
                         order |-> {[id |-> id] @@ orders'[id]}, report |-> <<>>]
            /\ menu_items' =
                   IF status # "cancelled" THEN menu_items
                   ELSE [m \in DOMAIN menu_items |->
                            [menu_items[m] EXCEPT !.stock_quantity =
                                @ + SumSet([k \in {x \in DOMAIN order_items :
                                                      /\ order_items[x].order_id = id
                                                      /\ order_items[x].menu_item_id = m} |->
                                               order_items[k].quantity])]]
       ELSE /\ orders' = orders
            /\ menu_items' = menu_items
            /\ reply' = Thrown("updateOrderStatus", "NotFound")
    /\ UNCHANGED <<users, order_items, menu_seq, order_seq, item_seq, req, now, locals, directory,
                   client>>

\* a status update that answers a missing order with an empty success
updateOrderStatusLenient(id, status) ==
    /\ Request
    /\ IF id \in DOMAIN orders
       THEN /\ orders' = [orders EXCEPT ![id] = WithStatus(@, status)]
            /\ reply' = [op |-> "updateOrderStatus", error |-> "none",
                         order |-> {[id |-> id] @@ orders'[id]}, report |-> <<>>]
       ELSE /\ orders' = orders
            /\ reply' = Returned("updateOrderStatus")
    /\ UNCHANGED <<users, menu_items, order_items, menu_seq, order_seq, item_seq, req, now, locals,
                   directory, client>>

\* set the status of an existing order, whatever its current status, and
\* return the updated order; throws `Order with id ... not found` when the
\* order is absent
updateOrderStatus(id, status) ==
    /\ Request
    /\ IF id \in DOMAIN orders
       THEN /\ orders' = [orders EXCEPT ![id] = WithStatus(@, status)]
            /\ reply' = [op |-> "updateOrderStatus", error |-> "none",
                         order |-> {[id |-> id] @@ orders'[id]}, report |-> <<>>]
       ELSE /\ orders' = orders
            /\ reply' = Thrown("updateOrderStatus", "NotFound")
    /\ UNCHANGED <<users, menu_items, order_items, menu_seq, order_seq, item_seq, req, now, locals,
                   directory, client>>

\* ---- directory ----

\* CreateUserInput: the fields the model follows
CreateUserInputs == [contact_number : ContactNumbers, department : Departments]

\* some user other than id has this contact number
ContactInUse(contact_number, id) ==
    \E u \in DOMAIN users \ {id} : users[u].contact_number = contact_number

\* register a user: the store draws the id, then rejects the row when the
\* contact number is taken (usersTable.contact_number is unique)
createUser(in) ==
    /\ Request
    /\ user_seq < MaxUserId
    /\ user_seq' = user_seq + 1
    /\ IF ContactInUse(in.contact_number, 0)
       THEN /\ users' = users
            /\ reply' = Thrown("createUser", "Conflict")
       ELSE /\ users' = [u \in DOMAIN users \cup {user_seq + 1} |->
                            IF u = user_seq + 1
                            THEN [contact_number |-> in.contact_number,
                                  department |-> in.department]
                            ELSE users[u]]
            /\ reply' = Returned("createUser")
    /\ UNCHANGED <<departments, dept_seq, menu_items, orders, order_items, menu_seq, order_seq,
                   item_seq, req, now, locals, client>>

\* UpdateUserInput: id, and the optional department
UpdateUserInputs == [id : UserIds] \cup [id : UserIds, department : Departments]

\* UpdateUserInput: id, and the optional contact number and department (the
\* other fields are not followed)
UserPatches ==
    UpdateUserInputs \cup [id : UserIds, contact_number : ContactNumbers]
    \cup [id : UserIds, contact_number : ContactNumbers, department : Departments]

\* the row after the update: only provided fields change
PatchedUser(row, in) ==
    [contact_number |-> IF "contact_number" \in DOMAIN in
                        THEN in.contact_number ELSE row.contact_number,
     department |-> IF "department" \in DOMAIN in THEN in.department ELSE row.department]

\* an update that the store does not check against the other rows
updateUserUnchecked(in) ==
    /\ Request
    /\ IF DOMAIN in = {"id"}
       THEN /\ users' = users
            /\ reply' = Thrown("updateUser", "StoreError")
       ELSE IF in.id \notin DOMAIN users
       THEN /\ users' = users
            /\ reply' = Thrown("updateUser", "NotFound")
       ELSE /\ users' = [users EXCEPT ![in.id] = PatchedUser(@, in)]
            /\ reply' = Returned("updateUser")
    /\ UNCHANGED <<menu_items, orders, order_items, menu_seq, order_seq, item_seq, req, now, locals,
                   directory, client>>

\* `update users set ... where id = input.id returning *`: the query builder
\* throws on an empty set clause, the store rejects a contact number that
\* another row holds, and the handler throws when no row is returned
updateUser(in) ==
    /\ Request
    /\ IF DOMAIN in = {"id"}
       THEN /\ users' = users
            /\ reply' = Thrown("updateUser", "StoreError")
       ELSE IF in.id \notin DOMAIN users
       THEN /\ users' = users
            /\ reply' = Thrown("updateUser", "NotFound")
       ELSE IF "contact_number" \in DOMAIN in /\ ContactInUse(in.contact_number, in.id)
       THEN /\ users' = users
            /\ reply' = Thrown("updateUser", "Conflict")
       ELSE /\ users' = [users EXCEPT ![in.id] = PatchedUser(@, in)]
            /\ reply' = Returned("updateUser")
    /\ UNCHANGED <<menu_items, orders, order_items, menu_seq, order_seq, item_seq, req, now, locals,
                   directory, client>>

DeptIds == 1..MaxDeptId

\* some department other than id has this name
NameInUse(name, id) ==
    \E d \in DOMAIN departments \ {id} : departments[d].name = name

\* an insert that the store does not check against the other rows
createDepartmentUnchecked(name) ==
    /\ Request
    /\ dept_seq < MaxDeptId
    /\ dept_seq' = dept_seq + 1
    /\ departments' = [d \in DOMAIN departments \cup {dept_seq + 1} |->
                           IF d = dept_seq + 1 THEN [name |-> name] ELSE departments[d]]
    /\ reply' = Returned("createDepartment")
    /\ UNCHANGED <<users, user_seq, menu_items, orders, order_items, menu_seq, order_seq,
                   item_seq, req, now, locals, client>>

\* insert a department: the store draws the id, then rejects the row when
\* the name is taken (departmentsTable.name is unique); the handler rethrows
createDepartment(name) ==
    /\ Request
    /\ dept_seq < MaxDeptId
    /\ dept_seq' = dept_seq + 1
    /\ IF NameInUse(name, 0)
       THEN /\ departments' = departments
            /\ reply' = Thrown("createDepartment", "Conflict")
       ELSE /\ departments' = [d \in DOMAIN departments \cup {dept_seq + 1} |->
                                  IF d = dept_seq + 1 THEN [name |-> name]
                                  ELSE departments[d]]
            /\ reply' = Returned("createDepartment")
    /\ UNCHANGED <<users, user_seq, menu_items, orders, order_items, menu_seq, order_seq,
                   item_seq, req, now, locals, client>>

\* UpdateDepartmentInput: id and the optional name
UpdateDepartmentInputs == [id : DeptIds] \cup [id : DeptIds, name : Departments]

\* updateDepartment, first statement: select the department; the handler
\* throws when there is no row, and returns the row when no field is provided
UD_Select(r, in) ==
    /\ Accept(r)
    /\ IF in.id \notin DOMAIN departments
       THEN /\ req' = req
            /\ ops' = ops + 1
            /\ reply' = Thrown("updateDepartment", "NotFound")
       ELSE IF "name" \notin DOMAIN in
       THEN /\ req' = req
            /\ ops' = ops + 1
            /\ reply' = Returned("updateDepartment")
       ELSE /\ req' = [req EXCEPT ![r] = [op |-> "updateDepartment", in |-> in]]
            /\ ops' = ops
            /\ reply' = reply
    /\ UNCHANGED <<db, now, locals, client>>

\* updateDepartment, second statement: `update ... where id = input.id
\* returning *`; the store rejects a name that another row holds, and when
\* the row is gone the handler returns result[0], undefined, without an error
UD_Update(r) ==
    /\ req[r].op = "updateDepartment"
    /\ LET in == req[r].in
       IN  IF in.id \notin DOMAIN departments
           THEN /\ departments' = departments
                /\ reply' = Returned("updateDepartment")
           ELSE IF NameInUse(in.name, in.id)
           THEN /\ departments' = departments
                /\ reply' = Thrown("updateDepartment", "Conflict")
           ELSE /\ departments' = [departments EXCEPT ![in.id].name = in.name]
                /\ reply' = Returned("updateDepartment")
    /\ req' = [req EXCEPT ![r] = NoReq]
    /\ ops' = ops + 1
    /\ UNCHANGED <<users, user_seq, dept_seq, menu_items, orders, order_items, menu_seq,
                   order_seq, item_seq, now, locals, client>>

\* the statements of the updateDepartment call of slot r
updateDepartment(r) ==
    \/ \E in \in UpdateDepartmentInputs : UD_Select(r, in)
    \/ UD_Update(r)

\* delete the department row, if any; users name their department by text
deleteDepartment(id) ==
    /\ Request
    /\ departments' = [d \in DOMAIN departments \ {id} |-> departments[d]]
    /\ reply' = Returned("deleteDepartment")
    /\ UNCHANGED <<users, user_seq, dept_seq, menu_items, orders, order_items, menu_seq,
                   order_seq, item_seq, req, now, locals, client>>

\* ---- time ----

\* a quarter of an hour passes
Tick ==
    /\ now < MaxTime
    /\ now' = now + 1
    /\ UNCHANGED <<db, ops, req, reply, locals, client>>

\* ---- order queries and reports ----

\* a query without ORDER BY returns its rows in an order the store chooses:
\* every enumeration of the set of rows
RowOrders(S) ==
    {f \in [1..Cardinality(S) -> S] : \A i, j \in DOMAIN f : i # j => f[i] # f[j]}

\* a stable sort by descending key (Array.prototype.sort with b - a, and
\* ORDER BY ... DESC over rows in the order the store chose): an element
\* comes after those of a greater key and those of its key that precede it;
\* key[i] is the key of s[i]
SortDesc(s, key) ==
    LET rank(i) == 1 + Cardinality({j \in DOMAIN s :
                                       \/ key[j] > key[i]
                                       \/ key[j] = key[i] /\ j < i})
    IN  [n \in DOMAIN s |-> s[CHOOSE i \in DOMAIN s : rank(i) = n]]

\* the rows of getUserOrders' query: orders of the user joined with the
\* user, the order items of the order and the menu item of each
UserOrderRows(user_id) ==
    {<<o, k>> \in (DOMAIN orders) \X (DOMAIN order_items) :
        /\ orders[o].user_id = user_id
        /\ orders[o].user_id \in DOMAIN users
        /\ order_items[k].order_id = o
        /\ order_items[k].menu_item_id \in DOMAIN menu_items}

RECURSIVE OrderIdsOf(_)
\* the keys of ordersMap, in the order of their first row
OrderIdsOf(rows) ==
    IF rows = <<>> THEN <<>>
    ELSE LET front == OrderIdsOf(SubSeq(rows, 1, Len(rows) - 1))
             o == rows[Len(rows)][1]
         IN  IF \E i \in DOMAIN front : front[i] = o THEN front ELSE Append(front, o)

\* the order_items array of order o: the order item of each of its rows
OrderItemsOf(rows, o) ==
    LET mine == SelectSeq(rows, LAMBDA r : r[1] = o)
    IN  [i \in DOMAIN mine |-> [id |-> mine[i][2]] @@ order_items[mine[i][2]]]

\* getUserOrders on the rows in the order the store returned them: one entry
\* per order, its order items under it, sorted by order_date, newest first
getUserOrders(user_id, rows) ==
    LET ids == OrderIdsOf(rows)
    IN  SortDesc([i \in DOMAIN ids |->
                     [id |-> ids[i], order_items |-> OrderItemsOf(rows, ids[i])]
                         @@ orders[ids[i]]],
                 [i \in DOMAIN ids |-> orders[ids[i]].order_date])

\* no status filter
AnyStatus == "none"

\* the rows of getAllOrders' query: orders, of the given status if any,
\* joined with their user, their order items and the menu item of each
AllOrderRows(status) ==
    {<<o, k>> \in (DOMAIN orders) \X (DOMAIN order_items) :
        /\ status = AnyStatus \/ orders[o].status = status
        /\ orders[o].user_id \in DOMAIN users
        /\ order_items[k].order_id = o
        /\ order_items[k].menu_item_id \in DOMAIN menu_items}

\* getAllOrders on the rows in the order the store chose before the
\* ORDER BY created_at DESC: one entry per order in the order of its first
\* row, its order items under it
getAllOrders(status, rows) ==
    LET sorted == SortDesc(rows, [i \in DOMAIN rows |-> orders[rows[i][1]].created_at])
        ids == OrderIdsOf(sorted)
    IN  [i \in DOMAIN ids |->
            [id |-> ids[i], order_items |-> OrderItemsOf(sorted, ids[i])] @@ orders[ids[i]]]

\* the groups of getDepartmentReports' first query: the departments of the
\* users the orders join with
OrderDepartments ==
    {users[orders[o].user_id].department :
        o \in {x \in DOMAIN orders : orders[x].user_id \in DOMAIN users}}

\* orders joined with users, of department d
DepartmentOrders(d) ==
    {o \in DOMAIN orders :
        /\ orders[o].user_id \in DOMAIN users
        /\ users[orders[o].user_id].department = d}

\* order items joined with orders and users, of department d
DepartmentOrderItems(d) ==
    {k \in DOMAIN order_items :
        /\ order_items[k].order_id \in DOMAIN orders
        /\ order_items[k].order_id \in DepartmentOrders(d)}

OrderTotal(o) == orders[o].total_amount
ItemQuantity(k) == order_items[k].quantity
ItemAmount(k) == order_items[k].quantity * order_items[k].price_at_order

\* the rows of getDepartmentReports' first query, groups being the
\* departments in the order the store returns them: count(orders.id) and
\* sum(total_amount) per department
DepartmentOrderStats(groups) ==
    [i \in DOMAIN groups |->
        [department |-> groups[i],
         total_orders |-> Cardinality(DepartmentOrders(groups[i])),
         total_amount |-> SumSet([o \in DepartmentOrders(groups[i]) |-> OrderTotal(o)])]]

\* the groups of the second query: the departments of the users whose
\* orders have an order item
ItemDepartments ==
    {users[orders[order_items[k].order_id].user_id].department :
        k \in {x \in DOMAIN order_items :
                  /\ order_items[x].order_id \in DOMAIN orders
                  /\ orders[order_items[x].order_id].user_id \in DOMAIN users}}

\* the rows of the second query: sum(quantity) per department
DepartmentQuantityStats ==
    [d \in ItemDepartments |->
        SumSet([k \in DepartmentOrderItems(d) |-> ItemQuantity(k)])]

\* the report built from the rows of the two queries: one entry per row of
\* the first, in its order, with the quantity of the second query's row of
\* the department, or 0 when it has none
DepartmentReport(orderResults, quantityResults) ==
    [i \in DOMAIN orderResults |->
        [department |-> orderResults[i].department,
         total_orders |-> orderResults[i].total_orders,
         total_quantity |->
             IF orderResults[i].department \in DOMAIN quantityResults
             THEN quantityResults[orderResults[i].department] ELSE 0,
         total_amount |-> orderResults[i].total_amount]]

\* getDepartmentReports, first statement: the query over orders and users
GDR_SelectOrders(r, groups) ==
    /\ Accept(r)
    /\ req' = [req EXCEPT ![r] = [op |-> "getDepartmentReports",
                                  orderResults |-> DepartmentOrderStats(groups)]]
    /\ UNCHANGED <<db, ops, now, reply, locals, client>>

\* getDepartmentReports, second statement: the query over order items,
\* orders and users, and the report returned
GDR_SelectItems(r) ==
    /\ req[r].op = "getDepartmentReports"
    /\ reply' = [op |-> "getDepartmentReports", error |-> "none", order |-> {},
                 report |-> DepartmentReport(req[r].orderResults, DepartmentQuantityStats)]
    /\ req' = [req EXCEPT ![r] = NoReq]
    /\ ops' = ops + 1
    /\ UNCHANGED <<db, now, locals, client>>

\* the statements of the getDepartmentReports call of slot r
getDepartmentReports(r) ==
    \/ \E groups \in RowOrders(OrderDepartments) : GDR_SelectOrders(r, groups)
    \/ GDR_SelectItems(r)

\* the groups of getMenuItemReports' query: menu items joined with order
\* items and their orders
OrderedMenuItems ==
    {order_items[k].menu_item_id :
        k \in {x \in DOMAIN order_items :
                  /\ order_items[x].menu_item_id \in DOMAIN menu_items
                  /\ order_items[x].order_id \in DOMAIN orders}}

MenuItemOrderItems(id) ==
    {k \in DOMAIN order_items :
        /\ order_items[k].menu_item_id = id
        /\ order_items[k].order_id \in DOMAIN orders}

\* a report that prices the quantities at the current catalog price
getMenuItemReportsAtCatalogPrice(groups) ==
    LET results ==
            [i \in DOMAIN groups |->
                [menu_item_id |-> groups[i],
                 total_orders |->
                     Cardinality({order_items[k].order_id : k \in MenuItemOrderItems(groups[i])}),
                 total_quantity |->
                     SumSet([k \in MenuItemOrderItems(groups[i]) |-> ItemQuantity(k)]),
                 total_amount |->
                     SumSet([k \in MenuItemOrderItems(groups[i]) |->
                         order_items[k].quantity * menu_items[groups[i]].price])]]
    IN  SortDesc(results, [i \in DOMAIN results |-> results[i].total_amount])

\* getMenuItemReports, groups being the ordered menu items in the order the
\* store met them: count(distinct order_id), sum(quantity) and
\* sum(quantity * price_at_order) per menu item, ordered by the last, descending
getMenuItemReports(groups) ==
    LET results ==
            [i \in DOMAIN groups |->
                [menu_item_id |-> groups[i],
                 total_orders |->
                     Cardinality({order_items[k].order_id : k \in MenuItemOrderItems(groups[i])}),
                 total_quantity |->
                     SumSet([k \in MenuItemOrderItems(groups[i]) |-> ItemQuantity(k)]),
                 total_amount |->
                     SumSet([k \in MenuItemOrderItems(groups[i]) |-> ItemAmount(k)])]]
    IN  SortDesc(results, [i \in DOMAIN results |-> results[i].total_amount])

\* ---- specifications ----

InitLocals ==
    /\ pc = [p \in Procs |-> "idle"]
    /\ input = [p \in Procs |-> NoInput]
    /\ menuItemMap = [p \in Procs |-> <<>>]
    /\ newOrder = [p \in Procs |-> 0]
    /\ idx = [p \in Procs |-> 0]
    /\ outcome = [p \in Procs |-> "none"]
    /\ built = [p \in Procs |-> 0]

\* the users of the runs: user 1 alone, or every user, one per department
OneUser == [u \in {1} |-> [contact_number |-> "111", department |-> "IT"]]
AllUsers ==
    [u \in UserIds |-> IF u = 1 THEN [contact_number |-> "111", department |-> "IT"]
                                ELSE [contact_number |-> "222", department |-> "HR"]]

\* one department in the table
OneDepartment == [d \in {1} |-> [name |-> "IT"]]

\* the directory besides the users, and the client session, at the start
InitRest ==
    /\ departments = OneDepartment
    /\ dept_seq = 1
    /\ user_seq = Cardinality(DOMAIN users)
    /\ req = [r \in Reqs |-> NoReq]
    /\ cartItems = <<>>
    /\ menuItems = menu_items
    /\ isLoading = FALSE
    /\ error = NoError
    /\ awaited = 0
    /\ fetching = NoFetch

\* one registered user, empty catalog and ledger, the clock at its start
Init ==
    /\ users = OneUser
    /\ menu_items = <<>>
    /\ orders = <<>>
    /\ order_items = <<>>
    /\ menu_seq = 0
    /\ order_seq = 0
    /\ item_seq = 0
    /\ ops = 0
    /\ now = 0
    /\ reply = NoReply
    /\ InitLocals
    /\ InitRest

\* every handler, their statements interleaved; one catalog call of two
\* statements at a time (the catalog runs interleave two)
Next ==
    \/ \E p \in Procs : createOrder(p)
    \/ \E p \in Procs : Finish(p)
    \/ \E price \in PriceInputs, stock \in Stocks : createMenuItem(price, stock)
    \/ updateMenuItem(1)
    \/ deleteMenuItem(1)
    \/ \E id \in 1..MaxOrders, status \in OrderStatus : updateOrderStatus(id, status)

Spec == Init /\ [][Next]_vars

InitOrders ==
    /\ users = OneUser
    /\ menu_items = SeedCatalog
    /\ orders = <<>>
    /\ order_items = <<>>
    /\ menu_seq = MaxItemId
    /\ order_seq = 0
    /\ item_seq = 0
    /\ ops = 0
    /\ now = 0
    /\ reply = NoReply
    /\ InitLocals
    /\ InitRest

\* concurrent createOrder calls, one per slot, and nothing else
NextOrders == \E p \in Procs : createOrder(p)

SpecOrders == InitOrders /\ [][NextOrders]_vars

\* no other createOrder call is in progress, and no call of a request slot
Alone(p) == Busy = {} /\ \A q \in Procs \ {p} : pc[q] = "idle"

\* no createOrder call is in progress
Calm == \A p \in Procs : pc[p] = "idle"

\* sequential runs: one request at a time, each run to its end
NextSeq ==
    \/ \E p \in Procs : Alone(p) /\ createOrder(p)
    \/ \E p \in Procs : Alone(p) /\ Finish(p)
    \/ Calm /\ Busy = {} /\
           \E price \in PriceInputs, stock \in Stocks : createMenuItem(price, stock)
    \/ Calm /\ updateMenuItem(1)
    \/ Calm /\ deleteMenuItem(1)
    \/ Calm /\ Busy = {} /\
           \E id \in 1..MaxOrders, status \in OrderStatus : updateOrderStatus(id, status)

\* before or after the registration of user 1
InitSeq ==
    /\ users \in {<<>>, OneUser}
    /\ menu_items = <<>>
    /\ orders = <<>>
    /\ order_items = <<>>
    /\ menu_seq = 0
    /\ order_seq = 0
    /\ item_seq = 0
    /\ ops = 0
    /\ now = 0
    /\ reply = NoReply
    /\ InitLocals
    /\ InitRest

SpecSeq == InitSeq /\ [][NextSeq]_vars

\* the ledger runs start from every user registered and the seed catalog
InitLedger ==
    /\ users = AllUsers
    /\ menu_items = SeedCatalog
    /\ orders = <<>>
    /\ order_items = <<>>
    /\ menu_seq = MaxItemId
    /\ order_seq = 0
    /\ item_seq = 0
    /\ ops = 0
    /\ now = 0
    /\ reply = NoReply
    /\ InitLocals
    /\ InitRest

\* ledger runs: carts of one line, orders placed through the checkout form
\* of one session, and status updates, while time passes
NextLedger ==
    \/ \E id \in ItemIds :
           /\ \A i \in DOMAIN cartItems : cartItems[i].menu_item_id = id
           /\ canAddMore(id)
           /\ addToCart(id, 1)
    \/ \E p \in Procs : Alone(p) /\
           \E pickup \in PickupTimes, rendered \in Times, zone \in Zones :
               CanSubmit(pickup, rendered, zone) /\ handleCheckout(p, pickup, "no onions")
    \/ \E p \in Procs : pc[p] = "requested" /\ CO_SelectUser(p, input[p])
    \/ \E p \in Procs : Alone(p) /\ CO_Rest(p)
    \/ \E p \in Procs : Alone(p) /\ handleCheckoutSettled(p)
    \/ \E id \in 1..MaxOrders, status \in OrderStatus : updateOrderStatus(id, status)
    \/ Tick

SpecLedger == InitLedger /\ [][NextLedger]_vars

\* report runs: orders of every user, department changes, catalog updates
\* and status updates, one request at a time
NextReports ==
    \/ \E p \in Procs : Alone(p) /\ createOrder(p)
    \/ \E p \in Procs : Alone(p) /\ Finish(p)
    \/ Calm /\ Busy = {} /\ \E in \in UpdateUserInputs : updateUser(in)
    \/ Calm /\ updateMenuItem(1)
    \/ Calm /\ Busy = {} /\
           \E id \in 1..MaxOrders, status \in OrderStatus : updateOrderStatus(id, status)

SpecReports == InitLedger /\ [][NextReports]_vars

\* CreateOrderInput of the audit runs: one line
AuditInputs == {in \in OrderInputs : Len(in.order_items) = 1}

\* audit runs: the department report while orders are placed, their
\* statements interleaved
NextAudit ==
    \/ \E p \in Procs, in \in AuditInputs : pc[p] = "idle" /\ CO_SelectUser(p, in)
    \/ \E p \in Procs : CO_Rest(p)
    \/ \E p \in Procs : Finish(p)
    \/ \E r \in Reqs : getDepartmentReports(r)

SpecAudit == InitLedger /\ [][NextAudit]_vars

\* the requests of the directory, their statements interleaved
NextDirectory ==
    \/ \E in \in CreateUserInputs : createUser(in)
    \/ \E in \in UserPatches : updateUser(in)
    \/ \E name \in Departments : createDepartment(name)
    \/ \E r \in Reqs : updateDepartment(r)
    \/ \E id \in DeptIds : deleteDepartment(id)

SpecDirectory == Init /\ [][NextDirectory]_vars

\* UpdateMenuItemInput: id, and any of the optional price, description (null
\* is a value) and stock_quantity
MenuItemPatches ==
    UpdateMenuItemInputs
    \cup [id : ItemIds]
    \cup [id : ItemIds, price : PriceInputs, stock_quantity : Stocks]
    \cup [id : ItemIds, description : Descriptions]
    \cup [id : ItemIds, price : PriceInputs, description : Descriptions]
    \cup [id : ItemIds, description : Descriptions, stock_quantity : Stocks]
    \cup [id : ItemIds, price : PriceInputs, description : Descriptions,
          stock_quantity : Stocks]

\* the requests of the catalog, their statements interleaved, while time
\* passes
NextCatalog ==
    \/ \E r \in Reqs, in \in MenuItemPatches : UM_Select(r, in)
    \/ \E r \in Reqs : UM_Update(r)
    \/ \E r \in Reqs : deleteMenuItem(r)
    \/ Tick

\* catalog runs start from the seed catalog
SpecCatalog == InitLedger /\ [][NextCatalog]_vars

\* the quantities updateCartItem is called with
CartQuantities == (-1)..MaxCartQty

\* the operations of the cart, called one after the other from the empty
\* cart: addToCart with the quantity its callers pass
NextCart ==
    \/ \E id \in ItemIds : getCartQuantity(id) < MaxCartQty /\ addToCart(id, 1)
    \/ \E id \in ItemIds, q \in CartQuantities : updateCartItem(id, q)
    \/ \E id \in ItemIds : removeFromCart(id)
    \/ clearCart

SpecCart == InitLedger /\ [][NextCart]_vars

\* the quantities the number field of a cart line is set to
FieldQuantities == (-1)..(MaxStock + 1)

\* the cart line of menu item id is shown: the dashboard has the menu item
Shown(id) ==
    /\ id \in DOMAIN menuItems
    /\ \E i \in DOMAIN cartItems : cartItems[i].menu_item_id = id

\* a session of user 1 with a cart of one line: the buttons of the menu and
\* of the cart, the
\* checkout of the cart, the statements of createOrder, the continuation of
\* the checkout, the response of a call that is no longer awaited, and the
\* page loaded again
NextClient ==
    \/ \E id \in ItemIds :
           /\ \A i \in DOMAIN cartItems : cartItems[i].menu_item_id = id
           /\ canAddMore(id)
           /\ addToCart(id, 1)
    \/ \E id \in ItemIds, q \in FieldQuantities : Shown(id) /\ handleQuantityChange(id, q)
    \/ \E id \in ItemIds : Shown(id) /\ removeFromCart(id)
    \/ cartItems # <<>> /\ clearCart
    \/ \E p \in Procs, zone \in Zones :
           CanSubmit(FarPickup, now, zone) /\ handleCheckout(p, FarPickup, NoRemarks)
    \/ \E p \in Procs : pc[p] = "requested" /\ CO_SelectUser(p, input[p])
    \/ \E p \in Procs : CO_Rest(p)
    \/ \E p \in Procs : handleCheckoutSettled(p)
    \/ \E p \in Procs : awaited # p /\ Finish(p)
    \/ mount
    \/ getMenuItems
    \/ loadMenuItems

SpecClient == InitLedger /\ [][NextClient]_vars

\* ---- properties ----

Lines(p) == input[p].order_items

\* the quantity of menu item id a request asks for, over all its lines
Requested(in, id) ==
    SumSeq([i \in DOMAIN in.order_items |->
               IF in.order_items[i].menu_item_id = id
               THEN in.order_items[i].quantity ELSE 0])

Requesters(id) == {p \in Procs : Requested(input[p], id) > 0}

AllDone == \A p \in Procs : pc[p] = "done"

\* C1: when concurrent createOrder calls ask, together, for more of a menu
\* item than its stock (MaxStock at the start of these runs), they do not
\* all succeed.
C1_NoJointOversell ==
    AllDone =>
        \A id \in ItemIds :
            (/\ Cardinality(Requesters(id)) >= 2
             /\ SumSeq([p \in Procs |-> Requested(input[p], id)]) > MaxStock)
            => \E p \in Requesters(id) : outcome[p] # "ok"

\* C2: a createOrder call that failed has left no order row behind.
C2_AllOrNothing ==
    \A p \in Procs :
        (pc[p] = "done" /\ outcome[p] # "ok") => newOrder[p] \notin DOMAIN orders

\* C3: the stock of every menu item is never negative.
C3_StockNonNegative ==
    \A id \in DOMAIN menu_items : menu_items[id].stock_quantity >= 0

\* a completed order has driven the stock of one of its items to 0
C3_Witness ==
    \E p \in Procs :
        /\ pc[p] = "done" /\ outcome[p] = "ok"
        /\ \E i \in DOMAIN Lines(p) :
               /\ Lines(p)[i].menu_item_id \in DOMAIN menu_items
               /\ menu_items[Lines(p)[i].menu_item_id].stock_quantity = 0
               /\ Lines(p)[i].quantity = MaxStock

\* one createOrder call run alone on catalog menu: how it ends, and the
\* catalog it leaves
SerialOutcome(menu, in) ==
    IF in.user_id \notin DOMAIN users THEN "UserNotFound"
    ELSE Validate(in.order_items, LookupMenuItems(menu, in.order_items))

SerialMenu(menu, in) ==
    IF SerialOutcome(menu, in) = "ok"
    THEN [id \in DOMAIN menu |->
             [menu[id] EXCEPT !.stock_quantity = @ - Requested(in, id)]]
    ELSE menu

\* the order rows and order items call p wrote, without their ids
Written(p) ==
    IF newOrder[p] \notin DOMAIN orders THEN <<>>
    ELSE <<orders[newOrder[p]].total_amount,
           {<<order_items[k].menu_item_id, order_items[k].quantity,
              order_items[k].price_at_order>> :
                k \in {x \in DOMAIN order_items : order_items[x].order_id = newOrder[p]}}>>

\* what a call run alone on catalog menu writes
SerialWritten(menu, in) ==
    IF SerialOutcome(menu, in) # "ok" THEN <<>>
    ELSE <<Numeric2(TotalAmount(in.order_items, LookupMenuItems(menu, in.order_items))),
           {<<in.order_items[i].menu_item_id, in.order_items[i].quantity,
              menu[in.order_items[i].menu_item_id].price>> : i \in DOMAIN in.order_items}>>

\* the state is the one the serial run "a, then b" from the seed catalog gives
SameAsSerial(a, b) ==
    LET m1 == SerialMenu(SeedCatalog, input[a])
    IN  /\ outcome[a] = SerialOutcome(SeedCatalog, input[a])
        /\ outcome[b] = SerialOutcome(m1, input[b])
        /\ menu_items = SerialMenu(m1, input[b])
        /\ Written(a) = SerialWritten(SeedCatalog, input[a])
        /\ Written(b) = SerialWritten(m1, input[b])

\* C4: two concurrent createOrder calls leave the stock, the orders and the
\* outcomes of one of their two serial executions.
C4_Serializable ==
    \A a, b \in Procs :
        (a # b /\ pc[a] = "done" /\ pc[b] = "done"
              /\ \A q \in Procs \ {a, b} : pc[q] = "idle")
        => (SameAsSerial(a, b) \/ SameAsSerial(b, a))

\* the order items of order o
ItemsOf(o) == {k \in DOMAIN order_items : order_items[k].order_id = o}

\* sum over the lines of (price read by the batch lookup x quantity)
ExpectedTotal(p) ==
    SumSeq([i \in DOMAIN Lines(p) |->
               menuItemMap[p][Lines(p)[i].menu_item_id].price * Lines(p)[i].quantity])

\* C5: after a successful createOrder the stored total_amount is the sum of
\* catalog price x quantity over the lines, each order item carries that
\* catalog price, and getUserOrders returns the order with that total.
C5_TotalIsPriceTimesQuantity ==
    \A p \in Procs :
        (pc[p] = "done" /\ outcome[p] = "ok") =>
            /\ newOrder[p] \in DOMAIN orders
            /\ orders[newOrder[p]].total_amount = ExpectedTotal(p)
            /\ Cardinality(ItemsOf(newOrder[p])) = Len(Lines(p))
            /\ \A i \in DOMAIN Lines(p) :
                   \E k \in ItemsOf(newOrder[p]) :
                       /\ order_items[k].menu_item_id = Lines(p)[i].menu_item_id
                       /\ order_items[k].quantity = Lines(p)[i].quantity
                       /\ order_items[k].price_at_order =
                              menuItemMap[p][Lines(p)[i].menu_item_id].price
            /\ \A rows \in RowOrders(UserOrderRows(input[p].user_id)) :
                   \E i \in 1..Len(getUserOrders(input[p].user_id, rows)) :
                       LET r == getUserOrders(input[p].user_id, rows)[i]
                       IN  r.id = newOrder[p] /\ r.total_amount = ExpectedTotal(p)

\* a two-line order with a quantity above 1 has succeeded
C5_Witness ==
    \E p \in Procs :
        /\ pc[p] = "done" /\ outcome[p] = "ok"
        /\ Len(Lines(p)) >= 2
        /\ \E i \in DOMAIN Lines(p) : Lines(p)[i].quantity >= 2

\* C6: an order item's price_at_order and an order's total_amount never
\* change once written, whatever happens to the menu item's price.
C6_PriceSnapshot ==
    [][/\ \A k \in DOMAIN order_items :
              /\ k \in DOMAIN order_items'
              /\ order_items'[k].price_at_order = order_items[k].price_at_order
       /\ \A o \in DOMAIN orders :
              /\ o \in DOMAIN orders'
              /\ orders'[o].total_amount = orders[o].total_amount]_vars

\* an ordered menu item now has another price than the one its order item keeps
C6_Witness ==
    \E k \in DOMAIN order_items :
        /\ order_items[k].menu_item_id \in DOMAIN menu_items
        /\ menu_items[order_items[k].menu_item_id].price # order_items[k].price_at_order

\* the call's user exists and the batch lookup found the item of every line
Resolved(p) ==
    /\ input[p].user_id \in DOMAIN users
    /\ \A i \in DOMAIN Lines(p) : Lines(p)[i].menu_item_id \in DOMAIN menuItemMap[p]

\* every line's quantity is within the stock the call read
WithinStock(p) ==
    \A i \in DOMAIN Lines(p) :
        Lines(p)[i].quantity <= menuItemMap[p][Lines(p)[i].menu_item_id].stock_quantity

\* C7: run alone, createOrder for an existing user and existing items
\* succeeds exactly when every line's quantity is within the item's stock,
\* and then lowers the stock of each ordered item by the ordered quantity.
C7_SucceedsIffWithinStock ==
    \A p \in Procs :
        (pc[p] = "done" /\ Resolved(p)) =>
            /\ (outcome[p] = "ok") <=> WithinStock(p)
            /\ outcome[p] = "ok" =>
                   \A i \in DOMAIN Lines(p) :
                       menu_items[Lines(p)[i].menu_item_id].stock_quantity =
                           menuItemMap[p][Lines(p)[i].menu_item_id].stock_quantity
                               - Lines(p)[i].quantity

\* C8: a request of several lines, one of which asks for more than the
\* stock, fails with InsufficientStock and writes no order.
C8_MultiLineInsufficientStock ==
    \A p \in Procs :
        (pc[p] = "done" /\ Resolved(p) /\ Len(Lines(p)) >= 2 /\ ~WithinStock(p)) =>
            /\ outcome[p] = "InsufficientStock"
            /\ newOrder[p] = 0

\* C9: an order row is created with status pending.
C9_NewOrdersPending ==
    [][\A o \in DOMAIN orders' \ DOMAIN orders : orders'[o].status = "pending"]_vars

\* a call has just inserted its order row, which is pending
C9_Witness ==
    \E p \in Procs :
        /\ pc[p] = "insertOrderItem" /\ idx[p] = 1
        /\ newOrder[p] \in DOMAIN orders
        /\ orders[newOrder[p]].status = "pending"

\* the transition graph of the order status
LegalTransitions ==
    {<<"pending", "confirmed">>, <<"pending", "cancelled">>,
     <<"confirmed", "delivered">>, <<"confirmed", "cancelled">>}

\* C10: an order's status only changes along the transition graph; delivered
\* and cancelled are terminal.
C10_StatusFollowsGraph ==
    [][\A o \in DOMAIN orders :
           (o \in DOMAIN orders' /\ orders'[o].status # orders[o].status)
           => <<orders[o].status, orders'[o].status>> \in LegalTransitions]_vars

\* a request was served by handler op in this step
Served(op) == ops' # ops /\ reply'.op = op

\* C11: updateOrderStatus returns an order only for an id that is in the
\* ledger; otherwise it fails with NotFound and leaves the ledger and the
\* catalog as they were.
C11_StatusOfMissingOrder ==
    [][Served("updateOrderStatus") =>
           IF reply'.error = "none"
           THEN \E r \in reply'.order : r.id \in DOMAIN orders
           ELSE /\ reply'.error = "NotFound"
                /\ reply'.order = {}
                /\ UNCHANGED <<orders, order_items, menu_items, users>>]_vars

\* a status update of a missing order was answered NotFound while the
\* ledger holds another order
C11_Witness ==
    /\ reply.op = "updateOrderStatus"
    /\ reply.error = "NotFound"
    /\ DOMAIN orders # {}

\* the fields of an order row that a status update leaves alone
Frozen(row) ==
    <<row.user_id, row.order_date, row.pickup_or_delivery_time, row.remarks,
      row.total_amount, row.created_at>>

\* C12: a successful updateOrderStatus(id, s) stores status s and the current
\* time as updated_at for order id, leaves its other fields and every other
\* order as they were, and returns the stored order.
C12_StatusUpdateFrame ==
    [][(Served("updateOrderStatus") /\ reply'.error = "none") =>
           \E r \in reply'.order :
               /\ reply'.order = {r}
               /\ r.id \in DOMAIN orders
               /\ DOMAIN orders' = DOMAIN orders
               /\ \E s \in OrderStatus : updateOrderStatus(r.id, s) /\ orders'[r.id].status = s
               /\ orders'[r.id].updated_at = now
               /\ Frozen(orders'[r.id]) = Frozen(orders[r.id])
               /\ \A o \in DOMAIN orders \ {r.id} : orders'[o] = orders[o]
               /\ r = [id |-> r.id] @@ orders'[r.id]]_vars

\* an order with remarks got a new status and a later updated_at, next to
\* another order
C12_Witness ==
    /\ reply.op = "updateOrderStatus"
    /\ \E r \in reply.order :
           /\ r.updated_at > r.created_at
           /\ r.status # DefaultStatus
           /\ r.remarks # NoRemarks
           /\ orders[r.id] = [x \in DOMAIN orders[r.id] |-> r[x]]
    /\ Cardinality(DOMAIN orders) >= 2

\* C13: updateOrderStatus never changes a stock and never creates, changes or
\* deletes an order item, whatever the target status: cancelling an order
\* does not give its stock back.
C13_StatusLeavesStock ==
    [][Served("updateOrderStatus") => UNCHANGED <<menu_items, order_items>>]_vars

\* an order was cancelled, and the stock its item consumed is still consumed
C13_Witness ==
    /\ reply.op = "updateOrderStatus"
    /\ \E r \in reply.order :
           /\ r.status = "cancelled"
           /\ \E k \in DOMAIN order_items :
                  /\ order_items[k].order_id = r.id
                  /\ menu_items[order_items[k].menu_item_id].stock_quantity
                         = MaxStock - order_items[k].quantity

\* C14: an order row, once created, stays in the ledger with its user_id,
\* order_date, pickup_or_delivery_time, remarks, total_amount and created_at
\* (only status and updated_at may change), and an order item, once created,
\* stays with every field as it was.
C14_LedgerImmutable ==
    [][/\ \A o \in DOMAIN orders :
              o \in DOMAIN orders' /\ Frozen(orders'[o]) = Frozen(orders[o])
       /\ \A k \in DOMAIN order_items :
              k \in DOMAIN order_items' /\ order_items'[k] = order_items[k]]_vars

\* the ledger holds an order item while a catalog or status request on its
\* menu item or order has just been served
C14_Witness ==
    /\ reply.op \in {"updateMenuItem", "deleteMenuItem", "updateOrderStatus"}
    /\ order_items # <<>>
    /\ \E o \in DOMAIN orders : orders[o].status # DefaultStatus \/ reply.error = "StoreError"

\* C15: createOrder for a user id that is not registered fails with
\* UserNotFound, whatever its lines, and writes nothing.
C15_UnknownUser ==
    [][\A p \in Procs :
           (pc[p] = "idle" /\ pc'[p] # "idle" /\ input'[p].user_id \notin DOMAIN users) =>
               /\ pc'[p] = "done"
               /\ outcome'[p] = "UserNotFound"
               /\ newOrder'[p] = 0
               /\ UNCHANGED db]_vars

\* a call for an unknown user, with lines for menu items of the catalog, has
\* failed
C15_Witness ==
    \E p \in Procs :
        /\ pc[p] = "done" /\ outcome[p] = "UserNotFound"
        /\ \A i \in DOMAIN Lines(p) : Lines(p)[i].menu_item_id \in DOMAIN menu_items

\* a line of the call names a menu item that is not in the catalog
SomeItemMissing(p) ==
    \E i \in DOMAIN Lines(p) : Lines(p)[i].menu_item_id \notin DOMAIN menu_items

\* C16: createOrder for a registered user with a line whose menu item is not
\* in the catalog fails with ItemsNotFound, whichever line it is, and writes
\* nothing.
C16_MissingMenuItem ==
    [][\A p \in Procs :
           (pc[p] = "selectMenuItems" /\ pc'[p] # pc[p] /\ SomeItemMissing(p)) =>
               /\ pc'[p] = "done"
               /\ outcome'[p] = "ItemsNotFound"
               /\ newOrder'[p] = 0
               /\ UNCHANGED db]_vars

\* a call whose first line is in the catalog and whose second line is not
\* has failed
C16_Witness ==
    \E p \in Procs :
        /\ pc[p] = "done" /\ outcome[p] = "ItemsNotFound"
        /\ Len(Lines(p)) >= 2
        /\ Lines(p)[1].menu_item_id \in DOMAIN menuItemMap[p]
        /\ Lines(p)[2].menu_item_id \notin DOMAIN menuItemMap[p]

\* C17: every order's pickup_or_delivery_time is at least 30 minutes after
\* the creation of the order.
C17_PickupLeadTime ==
    \A o \in DOMAIN orders :
        orders[o].pickup_or_delivery_time >= orders[o].created_at + MinLead

\* the departments of the users who have an order
DepartmentsWithOrders == {users[orders[o].user_id].department : o \in DOMAIN orders}

\* the orders of the users who are now in department d
OrdersOfDepartment(d) == {o \in DOMAIN orders : users[orders[o].user_id].department = d}

\* the row of department d that the claim describes
ExpectedDepartmentRow(d) ==
    [department |-> d,
     total_orders |-> Cardinality(OrdersOfDepartment(d)),
     total_quantity |->
         SumSet([o \in OrdersOfDepartment(d) |->
                    SumSet([k \in ItemsOf(o) |-> order_items[k].quantity])]),
     total_amount |-> SumSet([o \in OrdersOfDepartment(d) |-> orders[o].total_amount])]

\* the report of one state of the ledger, both queries reading the same
\* state, is the report the claim describes, in whatever order the store
\* returns the departments
DepartmentReportOfOneState ==
    \A groups \in RowOrders(OrderDepartments) :
        LET report == DepartmentReport(DepartmentOrderStats(groups), DepartmentQuantityStats)
        IN  /\ Len(report) = Cardinality(DepartmentsWithOrders)
            /\ \A d \in DepartmentsWithOrders :
                   \E i \in DOMAIN report : report[i] = ExpectedDepartmentRow(d)

\* the ledger when it held the first n orders and the first m order items
\* (orders and order items are only ever added): the orders of department d,
\* and the row of department d that the claim describes
OrdersOfDepartmentAt(d, n) == {o \in OrdersOfDepartment(d) : o <= n}

ExpectedDepartmentRowAt(d, n, m) ==
    [department |-> d,
     total_orders |-> Cardinality(OrdersOfDepartmentAt(d, n)),
     total_quantity |->
         SumSet([o \in OrdersOfDepartmentAt(d, n) |->
                    SumSet([k \in {x \in ItemsOf(o) : x <= m} |-> order_items[k].quantity])]),
     total_amount |-> SumSet([o \in OrdersOfDepartmentAt(d, n) |-> orders[o].total_amount])]

\* C18: the report getDepartmentReports returns is the report of the ledger
\* at some moment of the call: one row per department of a user with an
\* order, with the number of orders of the users of the department, the
\* quantities of the order items of those orders and the sum of their totals.
C18_DepartmentReport ==
    [][Served("getDepartmentReports") =>
           LET report == reply'.report
           IN  \E n \in 0..order_seq, m \in 0..item_seq :
                   LET depts == {d \in DepartmentsWithOrders : OrdersOfDepartmentAt(d, n) # {}}
                   IN  /\ Len(report) = Cardinality(depts)
                       /\ \A d \in depts :
                              \E i \in DOMAIN report :
                                  report[i] = ExpectedDepartmentRowAt(d, n, m)]_vars

\* the menu items that appear in an order item
MenuItemsOrdered == {order_items[k].menu_item_id : k \in DOMAIN order_items}

\* the row of menu item id that the claim describes
ExpectedMenuItemRow(id) ==
    LET mine == {k \in DOMAIN order_items : order_items[k].menu_item_id = id}
    IN  [menu_item_id |-> id,
         total_orders |-> Cardinality({order_items[k].order_id : k \in mine}),
         total_quantity |-> SumSet([k \in mine |-> order_items[k].quantity]),
         total_amount |->
             SumSet([k \in mine |-> order_items[k].quantity * order_items[k].price_at_order])]

\* C19: getMenuItemReports returns one row per menu item that appears in an
\* order item, and none for the others, with the number of distinct orders,
\* the quantity and the sum of quantity x price_at_order, sorted by that sum
\* in non-increasing order.
C19_MenuItemReport ==
    \A groups \in RowOrders(OrderedMenuItems) :
        LET report == getMenuItemReports(groups)
        IN  /\ Len(report) = Cardinality(MenuItemsOrdered)
            /\ \A id \in MenuItemsOrdered :
                   \E i \in DOMAIN report : report[i] = ExpectedMenuItemRow(id)
            /\ \A i, j \in DOMAIN report :
                   i < j => report[i].total_amount >= report[j].total_amount

\* a menu item is in two orders and its catalog price is no longer its
\* price_at_order, while another menu item was never ordered
C19_Witness ==
    /\ \E id \in MenuItemsOrdered :
           /\ Cardinality({order_items[k].order_id :
                              k \in {x \in DOMAIN order_items :
                                        order_items[x].menu_item_id = id}}) = 2
           /\ \E k \in DOMAIN order_items :
                  /\ order_items[k].menu_item_id = id
                  /\ order_items[k].price_at_order # menu_items[id].price
    /\ DOMAIN menu_items \ MenuItemsOrdered # {}

\* no createOrder call is under way
Quiescent == \A p \in Procs : pc[p] \in {"idle", "done"}

\* C20: getUserOrders(u) returns the orders whose user_id is u, each once
\* with its order items under it, no order of another user, newest
\* order_date first, whatever the order in which the store returns the rows.
C20_UserOrders ==
    Quiescent =>
        \A u \in UserIds :
            \A rows \in RowOrders(UserOrderRows(u)) :
                LET result == getUserOrders(u, rows)
                    mine == {o \in DOMAIN orders : orders[o].user_id = u}
                IN  /\ Len(result) = Cardinality(mine)
                    /\ \A o \in mine :
                           \E i \in DOMAIN result :
                               /\ result[i].id = o
                               /\ {result[i].order_items[n].id :
                                      n \in DOMAIN result[i].order_items} = ItemsOf(o)
                               /\ Len(result[i].order_items) = Cardinality(ItemsOf(o))
                    /\ \A i, j \in DOMAIN result :
                           i < j => result[i].order_date >= result[j].order_date

\* C21: no two users share a contact number; createUser with a contact
\* number that a user holds, and updateUser setting the contact number of an
\* existing user to one that another user holds, fail with Conflict and leave
\* the users as they were.
C21_UniqueContactNumber ==
    /\ [](\A u, v \in DOMAIN users :
              users[u].contact_number = users[v].contact_number => u = v)
    /\ [][/\ \A in \in CreateUserInputs :
                 /\ createUser(in)
                 /\ \E u \in DOMAIN users : users[u].contact_number = in.contact_number
                 => reply' = Thrown("createUser", "Conflict") /\ users' = users
          /\ \A in \in UserPatches :
                 /\ updateUser(in)
                 /\ in.id \in DOMAIN users
                 /\ "contact_number" \in DOMAIN in
                 /\ \E u \in DOMAIN users :
                        u # in.id /\ users[u].contact_number = in.contact_number
                 => reply' = Thrown("updateUser", "Conflict") /\ users' = users]_vars

\* a second user was registered, and an update of a contact number to the
\* one of the other user was rejected
C21_Witness ==
    /\ Cardinality(DOMAIN users) = 2
    /\ reply = Thrown("updateUser", "Conflict")

\* C22: no two departments share a name; createDepartment with a name that
\* a department holds, and the update statement of updateDepartment renaming
\* an existing department to the name of another, fail and leave the
\* departments as they were.
C22_UniqueDepartmentName ==
    /\ [](\A d, e \in DOMAIN departments :
              departments[d].name = departments[e].name => d = e)
    /\ [][/\ \A name \in Departments :
                 /\ createDepartment(name)
                 /\ \E d \in DOMAIN departments : departments[d].name = name
                 => reply'.error # "none" /\ departments' = departments
          /\ \A r \in Reqs :
                 /\ UD_Update(r)
                 /\ req[r].in.id \in DOMAIN departments
                 /\ \E d \in DOMAIN departments :
                        d # req[r].in.id /\ departments[d].name = req[r].in.name
                 => reply'.error # "none" /\ departments' = departments]_vars

\* a second department was created, and renaming one of them to the name of
\* the other was rejected
C22_Witness ==
    /\ Cardinality(DOMAIN departments) = 2
    /\ reply = Thrown("updateDepartment", "Conflict")

\* C23: updateMenuItem on an id that does not exist fails with not found
\* and changes nothing; on an existing menu item its update statement sets
\* exactly the fields the input provides (a provided null sets null, an
\* absent field keeps its value), sets updated_at to the time of the
\* statement, and changes neither the id, created_at nor any other menu
\* item; when the menu item was deleted after the select, the call fails
\* and changes nothing.
C23_MenuItemPatchFrame ==
    [][/\ \A r \in Reqs, in \in MenuItemPatches :
              UM_Select(r, in) =>
                  /\ UNCHANGED db
                  /\ in.id \notin DOMAIN menu_items
                         => reply' = Thrown("updateMenuItem", "NotFound")
                  /\ in.id \in DOMAIN menu_items => reply' = reply
       /\ \A r \in Reqs :
              UM_Update(r) =>
                  LET in == req[r].in
                  IN  IF in.id \in DOMAIN menu_items
                      THEN /\ reply' = Returned("updateMenuItem")
                           /\ DOMAIN menu_items' = DOMAIN menu_items
                           /\ \A i \in DOMAIN menu_items \ {in.id} :
                                  menu_items'[i] = menu_items[i]
                           /\ menu_items'[in.id].price =
                                  IF "price" \in DOMAIN in THEN Numeric2(in.price)
                                  ELSE menu_items[in.id].price
                           /\ menu_items'[in.id].description =
                                  IF "description" \in DOMAIN in THEN in.description
                                  ELSE menu_items[in.id].description
                           /\ menu_items'[in.id].stock_quantity =
                                  IF "stock_quantity" \in DOMAIN in THEN in.stock_quantity
                                  ELSE menu_items[in.id].stock_quantity
                           /\ menu_items'[in.id].updated_at \in req[r].built..now
                           /\ menu_items'[in.id].created_at = menu_items[in.id].created_at
                           /\ UNCHANGED <<users, departments, orders, order_items>>
                      ELSE /\ reply'.error # "none"
                           /\ UNCHANGED db]_vars

\* a menu item was updated after time had passed: its description was set
\* to null or kept while another field changed, beside an untouched item
C23_Witness ==
    /\ reply = Returned("updateMenuItem")
    /\ \E i \in DOMAIN menu_items :
           /\ menu_items[i].updated_at > menu_items[i].created_at
           /\ \/ menu_items[i].description = NoDescription
              \/ /\ menu_items[i].description = SeedCatalog[i].description
                 /\ menu_items[i].stock_quantity # SeedCatalog[i].stock_quantity
           /\ \E j \in DOMAIN menu_items : j # i /\ menu_items[j] = SeedCatalog[j]

\* C24: stock conservation: when no createOrder call is in progress, for
\* every menu item the seed stock minus the current stock equals the sum of
\* the quantities of the order items that reference it.
C24_StockConservation ==
    Quiescent =>
        \A id \in DOMAIN menu_items :
            SeedCatalog[id].stock_quantity - menu_items[id].stock_quantity
                = SumSet([k \in {j \in DOMAIN order_items : order_items[j].menu_item_id = id}
                             |-> order_items[k].quantity])

\* C25: for every order whose createOrder call has returned it, total_amount
\* equals the sum of quantity times price_at_order over the order items of
\* that order, also when a price update ran during the call.
C25_TotalMatchesOwnItems ==
    \A p \in Procs :
        pc[p] = "done" /\ outcome[p] = "ok" =>
            orders[newOrder[p]].total_amount
                = SumSet([k \in {j \in DOMAIN order_items :
                                     order_items[j].order_id = newOrder[p]}
                             |-> order_items[k].quantity * order_items[k].price_at_order])

\* a call returned its order although the price of one of its menu items
\* was changed after the call had read it
C25_Witness ==
    \E p \in Procs :
        /\ pc[p] = "done"
        /\ outcome[p] = "ok"
        /\ \E i \in DOMAIN input[p].order_items :
               LET id == input[p].order_items[i].menu_item_id
               IN  menu_items[id].price # menuItemMap[p][id].price

\* C26: when no createOrder call is in progress, every order has at least
\* one order item, so getAllOrders without a status filter returns every
\* order, and the number of orders it returns equals the sum of total_orders
\* over the rows of the department report.
C26_EveryOrderHasItems ==
    Quiescent =>
        /\ \A o \in DOMAIN orders : ItemsOf(o) # {}
        /\ \A rows \in RowOrders(AllOrderRows(AnyStatus)) :
               LET result == getAllOrders(AnyStatus, rows)
               IN  /\ {result[i].id : i \in DOMAIN result} = DOMAIN orders
                   /\ \A groups \in RowOrders(OrderDepartments) :
                          LET report == DepartmentReport(DepartmentOrderStats(groups),
                                                         DepartmentQuantityStats)
                          IN  Len(result)
                                  = SumSeq([i \in DOMAIN report |-> report[i].total_orders])

\* the foreign keys alone: every order names an existing user, every order
\* item an existing order and an existing menu item
ForeignKeysHold ==
    /\ \A o \in DOMAIN orders : orders[o].user_id \in DOMAIN users
    /\ \A k \in DOMAIN order_items :
           /\ order_items[k].order_id \in DOMAIN orders
           /\ order_items[k].menu_item_id \in DOMAIN menu_items

\* C27: every order names an existing user, every order item an existing
\* order and an existing menu item, and no finished createOrder call has
\* left an order row whose total was computed from a menu item that has
\* been deleted.
C27_ReferentialIntegrity ==
    /\ ForeignKeysHold
    /\ \A p \in Procs :
           pc[p] = "done" /\ newOrder[p] \in DOMAIN orders =>
               \A i \in DOMAIN input[p].order_items :
                   input[p].order_items[i].menu_item_id \in DOMAIN menu_items

\* C28: createOrder fails with 'One or more menu items not found' only when
\* the id of some line names no menu item.
C28_NotFoundOnlyWhenAbsent ==
    \A p \in Procs :
        pc[p] = "done" /\ outcome[p] = "ItemsNotFound" =>
            \E i \in DOMAIN input[p].order_items :
                input[p].order_items[i].menu_item_id \notin DOMAIN menu_items

\* C29: the cart holds at most one entry per menu item and every quantity is
\* a positive integer; addToCart on a menu item that is in the cart adds to
\* the quantity of its entry and leaves the other entries alone;
\* updateCartItem with a quantity of zero or less removes the entry.
C29_CartWellFormed ==
    /\ [](/\ \A i, j \in DOMAIN cartItems :
                cartItems[i].menu_item_id = cartItems[j].menu_item_id => i = j
          /\ \A i \in DOMAIN cartItems :
                cartItems[i].quantity \in Nat /\ cartItems[i].quantity > 0)
    /\ [][/\ \A id \in ItemIds :
                 addToCart(id, 1) =>
                     \A i \in DOMAIN cartItems :
                         /\ i \in DOMAIN cartItems'
                         /\ cartItems'[i].menu_item_id = cartItems[i].menu_item_id
                         /\ cartItems'[i].quantity =
                                IF cartItems[i].menu_item_id = id
                                THEN cartItems[i].quantity + 1
                                ELSE cartItems[i].quantity
                         /\ cartItems[i].menu_item_id = id =>
                                Len(cartItems') = Len(cartItems)
          /\ \A id \in ItemIds, q \in CartQuantities :
                 updateCartItem(id, q) /\ q <= 0 =>
                     /\ \A i \in DOMAIN cartItems' : cartItems'[i].menu_item_id # id
                     /\ \A i \in DOMAIN cartItems :
                            cartItems[i].menu_item_id # id =>
                                \E j \in DOMAIN cartItems' : cartItems'[j] = cartItems[i]]_vars

\* the cart has two entries, one of them raised by further calls of addToCart
C29_Witness ==
    /\ Len(cartItems) = 2
    /\ \E i \in DOMAIN cartItems : cartItems[i].quantity = MaxCartQty

\* a button of the menu or of the cart was used
CartOperation ==
    \/ \E id \in ItemIds : addToCart(id, 1)
    \/ \E id \in ItemIds, q \in FieldQuantities : handleQuantityChange(id, q)
    \/ \E id \in ItemIds : removeFromCart(id)
    \/ clearCart

\* C30: the checkout changes the cart only by emptying it after createOrder
\* has returned the order; when createOrder fails the continuation leaves
\* the cart as it is and shows the failure message, and in both cases it
\* lowers the loading flag; while the call is awaited the cart changes
\* otherwise only by the buttons of the menu and of the cart, so a cart that
\* was left alone is, after a failure, the cart that was sent.
C30_CartKeptOnFailure ==
    [][/\ cartItems' # cartItems =>
              \/ CartOperation
              \/ /\ cartItems' = <<>>
                 /\ awaited # 0 /\ pc[awaited] = "done" /\ outcome[awaited] = "ok"
       /\ \A p \in Procs :
              awaited = p /\ pc[p] = "done" /\ pc'[p] = "idle" =>
                  /\ ~isLoading'
                  /\ outcome[p] = "ok" => cartItems' = <<>> /\ error' = NoError
                  /\ outcome[p] # "ok" =>
                         /\ cartItems' = cartItems
                         /\ error' = OrderFailed
                         /\ orders' = orders]_vars

\* after an order was placed and the cart emptied, a second checkout failed:
\* the cart that was sent is still there, the message is shown, the flag is
\* lowered
C30_Witness ==
    /\ order_seq >= 1
    /\ cartItems # <<>>
    /\ error = OrderFailed
    /\ ~isLoading
    /\ \A p \in Procs : pc[p] = "idle"

====
